---- MODULE Spec2Model ----
(***************************************************************************)
(* CodeBLEU evaluator (src/codebleu_evaluator.py): the scoring engine      *)
(* (tokenizer, n-gram BLEU, keyword-weighted BLEU, structural and          *)
(* control-flow matching, composite score) and the dataset aggregator.     *)
(*                                                                         *)
(* Numbers.  Python floats are modelled as fixed-point integers: a score   *)
(* s is held as the integer floor(s * Scale), a weight w as w * WScale.    *)
(* Every arithmetic step rounds towards minus infinity, the way a float    *)
(* operation rounds to the nearest representable value.  0.0 is 0 and 1.0  *)
(* is Scale, both exactly.                                                 *)
(***************************************************************************)
EXTENDS Integers, Sequences, FiniteSets

\* score resolution of the fixed-point model: 1.0 is held as Scale
Scale == 1000
\* weight resolution: 0.25 is held as 5, 0.3 as 6, 1.0 as WScale
WScale == 20
\* math.isclose(..., rel_tol=1e-9): the tolerance is 1 / RelTolDen
RelTolDen == 1000000000

\* ------------------------------------------------------------------ bounds
\* longest candidate token sequence handed to calculate_bleu_score on its own
MaxLen == 4
\* most references in one reference list
MaxRefs == 2
\* most tokens in the references of one such call, all together
MaxRefTokens == 5
\* most (generated, reference) pairs in one dataset
MaxPairs == 2
\* most evaluate_dataset calls on one CodeBLEUDatasetEvaluator
MaxCalls == 2

\* ------------------------------------------------------------- arithmetic
Abs(x) == IF x < 0 THEN -x ELSE x
Max2(a, b) == IF a >= b THEN a ELSE b
Min2(a, b) == IF a <= b THEN a ELSE b
Range(s) == {s[i] : i \in 1..Len(s)}

\* the element of a set of one element.  A local variable of the program that
\* is assigned once and read many times is bound as x in {F(x) : x \in {value}},
\* which computes the value once.
Only(S) == CHOOSE x \in S : TRUE

RECURSIVE SumSeq(_)
SumSeq(s) == IF s = <<>> THEN 0 ELSE Head(s) + SumSeq(Tail(s))

RECURSIVE MaxSeq(_)
MaxSeq(s) == IF Len(s) = 1 THEN s[1] ELSE Max2(Head(s), MaxSeq(Tail(s)))

RECURSIVE MinSeq(_)
MinSeq(s) == IF Len(s) = 1 THEN s[1] ELSE Min2(Head(s), MinSeq(Tail(s)))

\* a / b of two Python numbers as a fixed-point score
FDiv(a, b) == (a * Scale) \div b

\* odd-power series of atanh(m), 0 <= m < 1 in fixed point:
\* m + m^3/3 + m^5/5 + ...; pow is the current odd power, k its exponent
RECURSIVE AtanhSeries(_, _, _)
AtanhSeries(pow, m2, k) ==
    IF pow = 0 THEN 0
    ELSE (pow \div k) + AtanhSeries((pow * m2) \div Scale, m2, k + 2)

\* math.log(x) for a fixed-point x in 1..Scale (0 < p <= 1):
\* ln p = -2 atanh((1 - p) / (1 + p))
math_log(x) ==
    LET m == ((Scale - x) * Scale) \div (Scale + x)
    IN  0 - 2 * AtanhSeries(m, (m * m) \div Scale, 1)

\* Taylor series of exp(-u), 0 <= u <= 1 in fixed point; term is u^k / k!
RECURSIVE ExpSeries(_, _, _)
ExpSeries(term, u, k) ==
    IF term = 0 THEN 0
    ELSE term - ExpSeries((term * u) \div (Scale * k), u, k + 1)

\* exp(-u) for a fixed-point u >= 0 (argument halving above 1.0)
RECURSIVE ExpNeg(_)
ExpNeg(u) ==
    IF u > Scale
    THEN LET h == ExpNeg(u \div 2) IN (h * h) \div Scale
    ELSE ExpSeries(Scale, u, 1)

\* math.exp(y) for a fixed-point y
math_exp(y) ==
    IF y <= 0 THEN ExpNeg(0 - y)
    ELSE LET d == ExpNeg(y) IN IF d = 0 THEN Scale * Scale ELSE (Scale * Scale) \div d

\* integer square root by bisection: the r in lo..hi with r*r <= n < (r+1)^2
RECURSIVE SqrtBetween(_, _, _)
SqrtBetween(n, lo, hi) ==
    IF lo >= hi THEN lo
    ELSE LET mid == (lo + hi + 1) \div 2
         IN  IF mid * mid <= n THEN SqrtBetween(n, mid, hi)
             ELSE SqrtBetween(n, lo, mid - 1)

\* x ** 0.5 of a value held in Scale^2 units, as a fixed-point score
Sqrt(n) == SqrtBetween(n, 0, 40000)

\* ---------------------------------------------------------------- results
\* what a call produces: a returned value, or a raised exception
Return(v) == [exc |-> "none", value |-> v]
Raise(e) == [exc |-> e, value |-> 0]

\* ---------------------------------------------------------------- n-grams
\* a faulty variant of the list of n-grams: range(len(tokens) - n), one n-gram
\* short
NGramListShort(tokens, n) ==
    IF Len(tokens) - n <= 0 THEN <<>>
    ELSE [i \in 1..(Len(tokens) - n) |-> SubSeq(tokens, i, i + n - 1)]

\* the list of n-grams of _get_ngrams, before it is counted
\* (range(len(tokens) - n + 1) is empty when the count is not positive)
NGramList(tokens, n) ==
    IF Len(tokens) - n + 1 <= 0 THEN <<>>
    ELSE [i \in 1..(Len(tokens) - n + 1) |-> SubSeq(tokens, i, i + n - 1)]

\* collections.Counter of a list: each distinct element with its count
Counter(list) ==
    [g \in Range(list) |-> Cardinality({i \in 1..Len(list) : list[i] = g})]

_get_ngrams(tokens, n) == Counter(NGramList(tokens, n))

\* sum(counter.values())
CounterTotal(c) ==
    LET RECURSIVE Sum(_)
        Sum(S) == IF S = {} THEN 0
                  ELSE LET g == CHOOSE x \in S : TRUE IN c[g] + Sum(S \ {g})
    IN  Sum(DOMAIN c)

\* ------------------------------------------------------------------- BLEU
\* default max_n of calculate_bleu_score
MaxN == 4

\* Python's a / b: ZeroDivisionError on a zero divisor
PyDiv(a, b) == IF b = 0 THEN Raise("ZeroDivisionError") ELSE Return(FDiv(a, b))

\* the test of line 137 without its second half (a faulty variant)
BleuEarlyReturnCandidateOnly(candidate, references) == candidate = <<>>
\* line 137: `if not candidate or not references: return 0.0`
BleuEarlyReturn(candidate, references) == candidate = <<>> \/ references = <<>>

\* max_counts[ngram] after the loop of lines 152-155 (a defaultdict(int): 0 when
\* no reference holds the n-gram)
MaxCounts(reference_ngrams, ngram) ==
    LET counts == {0} \cup {reference_ngrams[r][ngram] :
                        r \in {q \in 1..Len(reference_ngrams) :
                                   ngram \in DOMAIN reference_ngrams[q]}}
    IN  CHOOSE m \in counts : \A c \in counts : c <= m

\* faulty variants of the clipping of line 162: max for min, and a count
\* clipped to one occurrence
ClipMax(count, max_count) == Max2(count, max_count)
ClipToOne(count, max_count) == Min2(1, Min2(count, max_count))
\* line 162: min(count, max_counts[ngram])
Clip(count, max_count) == Min2(count, max_count)

\* `correct` after the loop of lines 161-162
Correct(candidate_ngrams, reference_ngrams) ==
    LET RECURSIVE Sum(_)
        Sum(S) == IF S = {} THEN 0
                  ELSE LET g == CHOOSE x \in S : TRUE
                       IN  Clip(candidate_ngrams[g], MaxCounts(reference_ngrams, g))
                           + Sum(S \ {g})
    IN  Sum(DOMAIN candidate_ngrams)

\* one pass of the loop of lines 143-165: the precision appended for order n
Precision(candidate, references, n) ==
    LET candidate_ngrams == _get_ngrams(candidate, n)
        reference_ngrams == [r \in 1..Len(references) |-> _get_ngrams(references[r], n)]
        correct == Correct(candidate_ngrams, reference_ngrams)
        total == CounterTotal(candidate_ngrams)
    IN  IF DOMAIN candidate_ngrams = {} THEN Return(0)
        ELSE IF total > 0 THEN PyDiv(correct, total) ELSE Return(0)

\* a faulty variant of the choice of the reference: the last reference at the
\* least distance
ClosestRefLast(references, candidate_length) ==
    LET d(i) == Abs(Len(references[i]) - candidate_length)
    IN  references[CHOOSE i \in 1..Len(references) :
                       /\ \A j \in 1..Len(references) : d(i) <= d(j)
                       /\ \A j \in (i + 1)..Len(references) : d(j) > d(i)]

\* line 169: min(references, key=lambda ref: abs(len(ref) - candidate_length)),
\* the first reference at the least distance
ClosestRef(references, candidate_length) ==
    LET d(i) == Abs(Len(references[i]) - candidate_length)
    IN  references[CHOOSE i \in 1..Len(references) :
                       /\ \A j \in 1..Len(references) : d(i) <= d(j)
                       /\ \A j \in 1..(i - 1) : d(j) > d(i)]

\* lines 172-175
BrevityPenalty(candidate_length, reference_length) ==
    IF candidate_length > reference_length THEN Return(Scale)
    ELSE IF candidate_length > 0
         THEN LET q == PyDiv(reference_length, candidate_length)
              IN  IF q.exc # "none" THEN q ELSE Return(math_exp(Scale - q.value))
         ELSE Return(0)

\* lines 178-184: 0.0 when a precision is 0, else brevity penalty times the
\* geometric mean exp(sum(log p) / len(precisions))
GeoMean(precisions) ==
    LET logs == [n \in 1..Len(precisions) |-> math_log(precisions[n])]
    IN  math_exp(SumSeq(logs) \div Len(precisions))

\* the loop of lines 143-165 from order n on: the list `precisions` it appends to
\* (each entry the float appended, or the exception the pass raised)
RECURSIVE PrecisionsFrom(_, _, _, _)
PrecisionsFrom(candidate, references, n, max_n) ==
    IF n > max_n THEN <<>>
    ELSE <<Precision(candidate, references, n)>>
         \o PrecisionsFrom(candidate, references, n + 1, max_n)

\* lines 167-184: brevity penalty, then 0.0 when a precision is 0, else the
\* penalty times the geometric mean
BleuFromPrecisions(precs, candidate, references) ==
    LET failed == {n \in 1..Len(precs) : precs[n].exc # "none"}
        precisions == [n \in 1..Len(precs) |-> precs[n].value]
        candidate_length == Len(candidate)
    IN  IF failed # {} THEN precs[CHOOSE n \in failed : \A k \in failed : n <= k]
        ELSE IF references = <<>> THEN Raise("ValueError")
        ELSE LET reference_length == Len(ClosestRef(references, candidate_length))
                 bp == BrevityPenalty(candidate_length, reference_length)
             IN  IF bp.exc # "none" THEN bp
                 ELSE IF \E n \in 1..Len(precs) : precisions[n] = 0 THEN Return(0)
                 ELSE IF \E n \in 1..Len(precs) : precisions[n] < 0 THEN Raise("ValueError")
                 ELSE Return((bp.value * GeoMean(precisions)) \div Scale)

\* lines 140-184, after the early return
BleuBody(candidate, references, max_n) ==
    Only({BleuFromPrecisions(precs, candidate, references) :
              precs \in {PrecisionsFrom(candidate, references, 1, max_n)}})

\* calculate_bleu_score(candidate, references, max_n)
BleuN(candidate, references, max_n) ==
    IF BleuEarlyReturn(candidate, references) THEN Return(0)
    ELSE BleuBody(candidate, references, max_n)

\* calculate_bleu_score(candidate, references) with the default max_n
calculate_bleu_score(candidate, references) == BleuN(candidate, references, MaxN)

\* ----------------------------------------------------------- source code
(***************************************************************************)
(* A code string is held as the sequence of its lines.  The lines come     *)
(* from a small vocabulary of real lines; what the regular expressions of  *)
(* the re module and the parser ast.parse make of one line is tabulated    *)
(* below, and the operators put the lines of a string together.  No        *)
(* pattern of the program matches across a line break of this vocabulary,  *)
(* and it holds no block comment.                                          *)
(***************************************************************************)
PyDef == "def f(): return 1"
PyIf == "if (X): pass"
PyComment == "# c"
JsFun == "function f(){return 1;}"
JsComment == "// c"
JavaMethod == "private int g() { return 0; }"
\* x = '?' with ? the lone surrogate U+D800, a character UTF-8 cannot encode
Surrogate == "x = 'U+D800'"

\* re.findall(r'\b\w+\b|[^\w\s]', line) on the line as written
Lexemes(line) ==
    CASE line = PyDef -> <<"def", "f", "(", ")", ":", "return", "1">>
      [] line = PyIf -> <<"if", "(", "X", ")", ":", "pass">>
      [] line = PyComment -> <<"#", "c">>
      [] line = JsFun -> <<"function", "f", "(", ")", "{", "return", "1", ";", "}">>
      [] line = JsComment -> <<"/", "/", "c">>
      [] line = JavaMethod ->
             <<"private", "int", "g", "(", ")", "{", "return", "0", ";", "}">>
      [] line = Surrogate -> <<"x", "=", "'", "U+D800", "'">>

\* str.lower() of one lexeme
Lower(lexeme) == IF lexeme = "X" THEN "x" ELSE lexeme

\* line 112: re.sub(r'#.*$', '', code, flags=re.MULTILINE) on one line
RECURSIVE StripHash(_)
StripHash(lexemes) ==
    IF lexemes = <<>> THEN <<>>
    ELSE IF Head(lexemes) = "#" THEN <<>>
    ELSE <<Head(lexemes)>> \o StripHash(Tail(lexemes))

\* line 115: re.sub(r'//.*$', '', code, flags=re.MULTILINE) on one line
RECURSIVE StripSlashes(_)
StripSlashes(lexemes) ==
    IF lexemes = <<>> THEN <<>>
    ELSE IF Len(lexemes) >= 2 /\ lexemes[1] = "/" /\ lexemes[2] = "/" THEN <<>>
    ELSE <<Head(lexemes)>> \o StripSlashes(Tail(lexemes))

\* lines 110-116: the comment rule of the language
StripComments(lexemes, language) ==
    IF language = "python" THEN StripHash(lexemes)
    ELSE IF language \in {"javascript", "java"} THEN StripSlashes(lexemes)
    ELSE lexemes

\* tokenize_code(code, language)
RECURSIVE tokenize_code(_, _)
tokenize_code(code, language) ==
    IF code = <<>> THEN <<>>
    ELSE LET kept == StripComments(Lexemes(Head(code)), language)
         IN  [i \in 1..Len(kept) |-> Lower(kept[i])] \o tokenize_code(Tail(code), language)

\* self.keywords, lines 73-94
keywords ==
    [python |-> {"def", "class", "if", "else", "elif", "for", "while", "try", "except",
                 "finally", "with", "import", "from", "return", "yield", "lambda",
                 "and", "or", "not", "in", "is", "global", "nonlocal", "assert",
                 "break", "continue", "pass", "raise", "del", "True", "False", "None"},
     javascript |-> {"function", "var", "let", "const", "if", "else", "for", "while",
                     "do", "switch", "case", "default", "break", "continue", "return",
                     "try", "catch", "finally", "throw", "new", "this", "typeof",
                     "instanceof", "in", "of", "true", "false", "null", "undefined",
                     "class", "extends", "super", "static", "async", "await", "yield",
                     "import", "export", "from"},
     java |-> {"class", "interface", "enum", "public", "private", "protected", "static",
               "final", "abstract", "synchronized", "volatile", "transient", "native",
               "if", "else", "for", "while", "do", "switch", "case", "default",
               "break", "continue", "return", "try", "catch", "finally", "throw",
               "throws", "new", "this", "super", "instanceof", "true", "false", "null"}]

\* a lookup that falls back on the python keywords (a faulty variant of line 199)
KeywordsOfPythonDefault(language) ==
    IF language \in DOMAIN keywords THEN keywords[language] ELSE keywords.python
\* line 199: self.keywords.get(language, set())
KeywordsOf(language) ==
    IF language \in DOMAIN keywords THEN keywords[language] ELSE {}

\* lines 202-210: every keyword token twice, every other token once
RECURSIVE weight_tokens(_, _)
weight_tokens(tokens, kw) ==
    IF tokens = <<>> THEN <<>>
    ELSE (IF Head(tokens) \in kw THEN <<Head(tokens), Head(tokens)>> ELSE <<Head(tokens)>>)
         \o weight_tokens(Tail(tokens), kw)

\* calculate_weighted_bleu_score(candidate, references, language)
calculate_weighted_bleu_score(candidate, references, language) ==
    LET kw == KeywordsOf(language)
        weighted_candidate == weight_tokens(candidate, kw)
        weighted_references == [r \in 1..Len(references) |-> weight_tokens(references[r], kw)]
    IN  Only({calculate_bleu_score(w[1], w[2]) :
                 w \in {<<weighted_candidate, weighted_references>>}})

\* ------------------------------------------------- structure and control flow
\* re.findall(pattern, line): the matches (the capture group, where the pattern
\* has one) of one pattern of the program in one line of the vocabulary
FindAll(pattern, line) ==
    CASE pattern = "\\breturn\\b" /\ line \in {PyDef, JsFun, JavaMethod} -> <<"return">>
      [] pattern = "\\bif\\s*\\(" /\ line = PyIf -> <<"if (">>
      [] pattern = "function\\s+(\\w+)" /\ line = JsFun -> <<"f">>
      [] pattern = "private\\s+\\w+\\s+(\\w+)\\s*\\(" /\ line = JavaMethod -> <<"g">>
      [] OTHER -> <<>>

\* re.findall(pattern, code) of a whole code string
RECURSIVE FindAllInCode(_, _)
FindAllInCode(pattern, code) ==
    IF code = <<>> THEN <<>>
    ELSE FindAll(pattern, Head(code)) \o FindAllInCode(pattern, Tail(code))

\* structures.extend(...) / control_flow.extend(...) for each pattern in turn
RECURSIVE ExtendAll(_, _)
ExtendAll(patterns, code) ==
    IF patterns = <<>> THEN <<>>
    ELSE FindAllInCode(Head(patterns), code) \o ExtendAll(Tail(patterns), code)

\* the pattern list of _extract_control_flow, lines 362-376
ControlFlowPatterns ==
    <<"\\bif\\s*\\(", "\\belse\\b", "\\belif\\s*\\(", "\\bfor\\s*\\(", "\\bwhile\\s*\\(",
      "\\btry\\b", "\\bcatch\\b", "\\bfinally\\b", "\\bswitch\\s*\\(", "\\bcase\\s+",
      "\\bbreak\\b", "\\bcontinue\\b", "\\breturn\\b">>

\* _extract_control_flow(code, language)
_extract_control_flow(code, language) == ExtendAll(ControlFlowPatterns, code)

\* _extract_code_structures(code, language)
_extract_code_structures(code, language) ==
    IF language = "javascript"
    THEN ExtendAll(<<"function\\s+(\\w+)", "class\\s+(\\w+)", "(\\w+)\\s*:\\s*function",
                     "const\\s+(\\w+)\\s*=\\s*\\([^)]*\\)\\s*=>">>, code)
    ELSE IF language = "java"
    THEN ExtendAll(<<"class\\s+(\\w+)", "interface\\s+(\\w+)",
                     "public\\s+\\w+\\s+(\\w+)\\s*\\(",
                     "private\\s+\\w+\\s+(\\w+)\\s*\\(">>, code)
    ELSE <<>>

\* what ast.parse makes of one line: the node types below the Module node, or
\* the exception it raises
ParseLine(line) ==
    CASE line = PyDef -> [exc |-> "none", nodes |-> <<"FunctionDef", "arguments", "Return", "Constant">>]
      [] line = PyIf -> [exc |-> "none", nodes |-> <<"If", "Name", "Pass", "Load">>]
      [] line = PyComment -> [exc |-> "none", nodes |-> <<>>]
      [] line = Surrogate -> [exc |-> "UnicodeEncodeError", nodes |-> <<>>]
      [] OTHER -> [exc |-> "SyntaxError", nodes |-> <<>>]

RECURSIVE NodesOfLines(_)
NodesOfLines(code) ==
    IF code = <<>> THEN <<>>
    ELSE ParseLine(Head(code)).nodes \o NodesOfLines(Tail(code))

\* ast.parse(code) followed by _extract_ast_nodes (lines 270-277): the type name
\* of every node of the tree.  The source is encoded before it is parsed, so an
\* unencodable character is reported before any syntax error.
ParseNodes(code) ==
    IF \E i \in 1..Len(code) : ParseLine(code[i]).exc = "UnicodeEncodeError"
    THEN [exc |-> "UnicodeEncodeError", nodes |-> <<>>]
    ELSE IF \E i \in 1..Len(code) : ParseLine(code[i]).exc = "SyntaxError"
    THEN [exc |-> "SyntaxError", nodes |-> <<>>]
    ELSE [exc |-> "none", nodes |-> <<"Module">> \o NodesOfLines(code)]

\* a score that counts every occurrence of a node type instead of the distinct
\* node types (a faulty variant of lines 253-260)
PairScoreCounted(candidate_nodes, ref_nodes) ==
    LET common == Cardinality({k \in 1..Len(candidate_nodes) :
                                   candidate_nodes[k] \in Range(ref_nodes)})
    IN  IF Len(candidate_nodes) + Len(ref_nodes) = 0 THEN Return(Scale)
        ELSE PyDiv(common, Len(candidate_nodes) + Len(ref_nodes) - common)
\* lines 253-260: the score of one reference against the candidate's node types
AstPairScore(candidate_nodes, ref_nodes) ==
    IF candidate_nodes = <<>> /\ ref_nodes = <<>> THEN Return(Scale)
    ELSE IF candidate_nodes = <<>> \/ ref_nodes = <<>> THEN Return(0)
    ELSE LET common_nodes == Cardinality(Range(candidate_nodes) \cap Range(ref_nodes))
             total_nodes == Cardinality(Range(candidate_nodes) \cup Range(ref_nodes))
         IN  IF total_nodes > 0 THEN PyDiv(common_nodes, total_nodes) ELSE Return(0)

\* the loop of lines 247-266 over the references from the i-th on, max_score so
\* far: a reference with a syntax error is skipped, any other exception of the
\* parser leaves the loop and the function
RECURSIVE AstLoop(_, _, _, _)
AstLoop(candidate_nodes, reference_codes, i, max_score) ==
    IF i > Len(reference_codes) THEN Return(max_score)
    ELSE LET ref == ParseNodes(reference_codes[i])
         IN  IF ref.exc = "SyntaxError"
             THEN AstLoop(candidate_nodes, reference_codes, i + 1, max_score)
             ELSE IF ref.exc # "none" THEN Raise(ref.exc)
             ELSE LET score == AstPairScore(candidate_nodes, ref.nodes)
                  IN  IF score.exc # "none" THEN score
                      ELSE AstLoop(candidate_nodes, reference_codes, i + 1,
                                   Max2(max_score, score.value))

\* lines 238-243: what a candidate that does not parse makes of the score
CandidateParseFailure(exc) ==
    IF exc = "SyntaxError" THEN Return(0) ELSE Raise(exc)

\* _calculate_python_ast_score(candidate_code, reference_codes)
_calculate_python_ast_score(candidate_code, reference_codes) ==
    LET candidate == ParseNodes(candidate_code)
    IN  IF candidate.exc # "none" THEN CandidateParseFailure(candidate.exc)
        ELSE AstLoop(candidate.nodes, reference_codes, 1, 0)

\* lines 290-297: the score of one reference against the candidate's structures
StructurePairScore(candidate_structures, ref_structures) ==
    IF candidate_structures = <<>> /\ ref_structures = <<>> THEN Return(Scale)
    ELSE IF candidate_structures = <<>> \/ ref_structures = <<>> THEN Return(0)
    ELSE LET common == Cardinality(Range(candidate_structures) \cap Range(ref_structures))
             total == Cardinality(Range(candidate_structures) \cup Range(ref_structures))
         IN  IF total > 0 THEN PyDiv(common, total) ELSE Return(0)

\* the loop of lines 287-299 over the references from the i-th on
RECURSIVE StructureLoop(_, _, _, _, _)
StructureLoop(candidate_structures, references, language, i, max_score) ==
    IF i > Len(references) THEN Return(max_score)
    ELSE LET score == StructurePairScore(candidate_structures,
                          _extract_code_structures(references[i], language))
         IN  IF score.exc # "none" THEN score
             ELSE StructureLoop(candidate_structures, references, language, i + 1,
                                Max2(max_score, score.value))

\* _calculate_structural_similarity(candidate, references, language)
_calculate_structural_similarity(candidate, references, language) ==
    StructureLoop(_extract_code_structures(candidate, language), references, language, 1, 0)

\* calculate_ast_matching_score(candidate_code, reference_codes, language)
calculate_ast_matching_score(candidate_code, reference_codes, language) ==
    IF language = "python"
    THEN _calculate_python_ast_score(candidate_code, reference_codes)
    ELSE _calculate_structural_similarity(candidate_code, reference_codes, language)

\* a score without the case of two empty signatures (a faulty variant of lines
\* 343-351)
PairScoreEmptyIsZero(candidate_cf, ref_cf) ==
    IF candidate_cf = <<>> \/ ref_cf = <<>> THEN Return(0)
    ELSE PyDiv(Cardinality(Range(candidate_cf) \cap Range(ref_cf)),
               Cardinality(Range(candidate_cf) \cup Range(ref_cf)))
\* lines 343-351: the score of one reference against the candidate's control flow
ControlFlowPairScore(candidate_cf, ref_cf) ==
    IF candidate_cf = <<>> /\ ref_cf = <<>> THEN Return(Scale)
    ELSE IF candidate_cf = <<>> \/ ref_cf = <<>> THEN Return(0)
    ELSE LET common == Cardinality(Range(candidate_cf) \cap Range(ref_cf))
             total == Cardinality(Range(candidate_cf) \cup Range(ref_cf))
         IN  IF total > 0 THEN PyDiv(common, total) ELSE Return(0)

\* the loop of lines 340-353 over the references from the i-th on
RECURSIVE ControlFlowLoop(_, _, _, _, _)
ControlFlowLoop(candidate_cf, reference_codes, language, i, max_score) ==
    IF i > Len(reference_codes) THEN Return(max_score)
    ELSE LET score == ControlFlowPairScore(candidate_cf,
                          _extract_control_flow(reference_codes[i], language))
         IN  IF score.exc # "none" THEN score
             ELSE ControlFlowLoop(candidate_cf, reference_codes, language, i + 1,
                                  Max2(max_score, score.value))

\* calculate_control_flow_score(candidate_code, reference_codes, language)
calculate_control_flow_score(candidate_code, reference_codes, language) ==
    ControlFlowLoop(_extract_control_flow(candidate_code, language), reference_codes,
                    language, 1, 0)

\* ------------------------------------------------------------ the composite
\* `indicator in code`: the substring test of detect_language on one line
Contains(line, indicator) ==
    \/ indicator = "def " /\ line = PyDef
    \/ indicator = "function " /\ line = JsFun
    \/ indicator = "private " /\ line = JavaMethod

\* any(indicator in code for indicator in indicators)
AnyIndicator(code, indicators) ==
    \E k \in 1..Len(indicators), i \in 1..Len(code) : Contains(code[i], indicators[k])

\* a detection that tests the javascript markers first (a faulty variant of
\* lines 405-417)
DetectJavascriptFirst(code) ==
    IF AnyIndicator(code, <<"function ", "var ", "let ", "const ", "=>">>)
    THEN "javascript"
    ELSE IF AnyIndicator(code, <<"def ", "import ", "from ", "__init__", "self.">>)
    THEN "python"
    ELSE IF AnyIndicator(code, <<"public class", "private ", "public static void">>)
    THEN "java"
    ELSE "python"

\* detect_language(code)
detect_language(code) ==
    IF AnyIndicator(code, <<"def ", "import ", "from ", "__init__", "self.">>)
    THEN "python"
    ELSE IF AnyIndicator(code, <<"function ", "var ", "let ", "const ", "=>">>)
    THEN "javascript"
    ELSE IF AnyIndicator(code, <<"public class", "private ", "public static void">>)
    THEN "java"
    ELSE "python"

\* line 64: math.isclose(a, b, rel_tol=1e-9) of two numbers held in the same
\* unit: abs(a - b) <= rel_tol * max(abs(a), abs(b))
isclose(a, b) == Abs(a - b) <= Max2(Abs(a), Abs(b)) \div RelTolDen

\* a constructor without the check of lines 64-65 (a faulty variant)
WeightsAcceptedAlways(alpha, beta, gamma, delta) == TRUE
\* lines 64-65: the check of __init__
WeightsAccepted(alpha, beta, gamma, delta) ==
    isclose(alpha + beta + gamma + delta, WScale)

\* lines 453-458
Combine(weights, bleu, weighted_bleu, ast, cf) ==
    (weights.alpha * bleu + weights.beta * weighted_bleu
        + weights.gamma * ast + weights.delta * cf) \div WScale

\* the reference_codes argument, a Union[str, List[str]]: one code string, or
\* a list of code strings
Str(code) == [type |-> "str", str |-> code, list |-> <<>>]
List(codes) == [type |-> "list", str |-> <<>>, list |-> codes]

\* a faulty variant of the normalisation: the string is not wrapped but iterated,
\* each piece of it taken as a reference of its own
ReferencesIterated(reference_codes) ==
    IF reference_codes.type = "str"
    THEN [k \in 1..Len(reference_codes.str) |-> <<reference_codes.str[k]>>]
    ELSE reference_codes.list

\* lines 433-434: `if isinstance(reference_codes, str): reference_codes = [...]`
NormalizeReferences(reference_codes) ==
    IF reference_codes.type = "str" THEN <<reference_codes.str>> ELSE reference_codes.list

\* evaluate(candidate_code, reference_codes, language) on an evaluator holding
\* `weights`; language "None" is the absent argument
\* lines 452-476: the result dict of the four sub-scores (the first exception
\* raised by a sub-scorer, if one raised)
EvaluationResult(weights, language, bleu_score, weighted_bleu_score, ast_score, cf_score) ==
    IF bleu_score.exc # "none" THEN bleu_score
    ELSE IF weighted_bleu_score.exc # "none" THEN weighted_bleu_score
    ELSE IF ast_score.exc # "none" THEN ast_score
    ELSE IF cf_score.exc # "none" THEN cf_score
    ELSE Return([codebleu |-> Combine(weights, bleu_score.value,
                                      weighted_bleu_score.value,
                                      ast_score.value, cf_score.value),
                 bleu |-> bleu_score.value,
                 weighted_bleu |-> weighted_bleu_score.value,
                 ast_match |-> ast_score.value,
                 control_flow |-> cf_score.value,
                 language |-> language,
                 weights |-> weights])

\* lines 447-450: the four sub-scores, in the order they are computed
SubScorers(candidate_tokens, reference_tokens_list, candidate_code, reference_codes, language) ==
    <<calculate_bleu_score(candidate_tokens, reference_tokens_list),
      calculate_weighted_bleu_score(candidate_tokens, reference_tokens_list, language),
      calculate_ast_matching_score(candidate_code, reference_codes, language),
      calculate_control_flow_score(candidate_code, reference_codes, language)>>

\* lines 440-476, the language resolved: tokens, then the sub-scores, then the
\* result
EvaluateIn(weights, candidate_code, reference_codes, language) ==
    LET candidate_tokens == tokenize_code(candidate_code, language)
        reference_tokens_list ==
            [r \in 1..Len(reference_codes) |-> tokenize_code(reference_codes[r], language)]
    IN  Only({EvaluationResult(weights, language, s[1], s[2], s[3], s[4]) :
                 s \in {SubScorers(t[1], t[2], candidate_code, reference_codes, language) :
                           t \in {<<candidate_tokens, reference_tokens_list>>}}})

\* a faulty variant of the effect of evaluate on the instance: the call leaves
\* alpha and beta exchanged
SelfWeightsExchanged(self) == [self EXCEPT !.alpha = self.beta, !.beta = self.alpha]
\* lines 419-476 and the sub-scorers: the instance after a call of evaluate; no
\* statement assigns to self.alpha, self.beta, self.gamma, self.delta or
\* self.keywords, and the table is read with dict.get (line 199)
SelfAfterEvaluate(self) == self

\* evaluate(candidate_code, reference_codes, language) on an evaluator holding
\* `weights`; language "None" is the absent argument
evaluate(weights, candidate_code, reference_codes_arg, language_arg) ==
    EvaluateIn(weights, candidate_code, NormalizeReferences(reference_codes_arg),
               IF language_arg = "None" THEN detect_language(candidate_code)
               ELSE language_arg)

\* ------------------------------------------------------------- aggregation
\* lines 545-556: the scores of a pair are appended when evaluate returned; a
\* pair whose evaluate raised is logged and left out
AppendScores(individual_scores, outcome) ==
    IF outcome.exc = "none" THEN Append(individual_scores, outcome.value)
    ELSE individual_scores

\* a faulty variant of the entry: its index is the number of entries before it
AppendResultRenumbered(results_list, outcome, i, generated, reference) ==
    IF outcome.exc = "none"
    THEN Append(results_list, [index |-> Len(results_list), scores |-> outcome.value,
                               generated_code |-> generated, reference_code |-> reference])
    ELSE results_list

\* a faulty variant of the entry: it takes the place of the list
AppendResultReplacing(results_list, outcome, i, generated, reference) ==
    IF outcome.exc = "none"
    THEN <<[index |-> i, scores |-> outcome.value,
            generated_code |-> generated, reference_code |-> reference]>>
    ELSE results_list

\* lines 548-553: the entry appended to self.results for pair i
AppendResult(results_list, outcome, i, generated, reference) ==
    IF outcome.exc = "none"
    THEN Append(results_list, [index |-> i, scores |-> outcome.value,
                               generated_code |-> generated, reference_code |-> reference])
    ELSE results_list

\* `break` for the `continue` of line 556 (a faulty variant)
AfterFailureBreak(i, n) == n
\* lines 554-556: where the loop goes on after pair i raised (`continue`)
AfterFailure(i, n) == i + 1

\* the loop's end without the test of line 558 (a faulty variant)
NoValidEvaluationsNever(individual_scores) == FALSE
\* line 558: `if not individual_scores`
NoValidEvaluations(individual_scores) == individual_scores = <<>>

\* line 563
metrics == <<"codebleu", "bleu", "weighted_bleu", "ast_match", "control_flow">>

\* lines 567-573: mean, max, min and population standard deviation of `values`
\* (sum(values) / len(values) raises ZeroDivisionError on no value)
Statistics(values) ==
    IF Len(values) = 0 THEN Raise("ZeroDivisionError")
    ELSE LET mean == SumSeq(values) \div Len(values)
             squares == [k \in 1..Len(values) |-> (values[k] - mean) * (values[k] - mean)]
         IN  Return([mean |-> mean,
                     max |-> MaxSeq(values),
                     min |-> MinSeq(values),
                     std |-> Sqrt(SumSeq(squares) \div Len(values))])

\* lines 562-579: the summary of the scores gathered
Aggregate(individual_scores) ==
    LET stats(metric) ==
            Statistics([k \in 1..Len(individual_scores) |-> individual_scores[k][metric]])
    IN  IF \E m \in 1..Len(metrics) : stats(metrics[m]).exc # "none"
        THEN Raise("ZeroDivisionError")
        ELSE Return([codebleu |-> stats("codebleu").value,
                     bleu |-> stats("bleu").value,
                     weighted_bleu |-> stats("weighted_bleu").value,
                     ast_match |-> stats("ast_match").value,
                     control_flow |-> stats("control_flow").value,
                     total_pairs |-> Len(individual_scores),
                     evaluation_time |-> "now"])

\* the empty dict {} of lines 538 and 560
EmptyDict == <<>>

\* lines 558-579: what evaluate_dataset returns once the loop has ended
Summarize(individual_scores) ==
    IF NoValidEvaluations(individual_scores) THEN Return(EmptyDict)
    ELSE Aggregate(individual_scores)

\* ------------------------------------------------------------------ state
VARIABLES
    evaluator,          \* the CodeBLEUEvaluator constructed: <<>> while there is
                        \*   none, else <<its weights alpha, beta, gamma, delta>>
    ctor,               \* what the constructor call did: "none" before the call,
                        \*   "ok", or the exception it raised
    ctor_args,          \* the weights the constructor was called with
    results,            \* CodeBLEUDatasetEvaluator.results
    ds_pc,              \* evaluate_dataset: "idle", "loop" inside the for loop,
                        \*   "returned" once the call has ended
    dataset,            \*   its argument,
    i,                  \*   the index of the pair the loop is at,
    individual_scores,  \*   its local list,
    ds_ret,             \*   and what the call produced
    calls,              \* evaluate_dataset calls made so far
    ev_pc,              \* evaluate called on its own: "call" before the call,
                        \*   "done" once it has returned or raised,
    ev_candidate,       \*   candidate_code,
    ev_references,      \*   reference_codes,
    ev_language,        \*   language ("None" when absent),
    ev_ret,             \*   and what the call produced
    bleu_pc,            \* calculate_bleu_score called on its own: "call" before the
                        \*   call, "done" once it has returned or raised,
    bleu_candidate,     \*   the candidate,
    bleu_references,    \*   the reference list,
    bleu_ret            \*   and what the call produced

obj_vars == <<evaluator, ctor, ctor_args, results>>
ds_vars == <<ds_pc, dataset, i, individual_scores, ds_ret, calls>>
ev_vars == <<ev_pc, ev_candidate, ev_references, ev_language, ev_ret>>
bleu_vars == <<bleu_pc, bleu_candidate, bleu_references, bleu_ret>>
vars == <<obj_vars, ds_vars, ev_vars, bleu_vars>>

\* ----------------------------------------------------------------- inputs
\* the code strings the calls are made on
Empty == <<>>
Codes ==
    {Empty, <<PyDef>>, <<PyDef, PyDef>>, <<PyComment, PyIf>>, <<PyDef, PyIf>>,
     <<JsFun>>, <<JsComment, JavaMethod>>, <<Surrogate>>}

\* candidates holding the markers of two languages: a javascript line before a
\* python line, a java line before a javascript line
MixedCodes == {<<JsFun, PyDef>>, <<JavaMethod, JsFun>>}

\* the language arguments: absent, the three of the keyword table, one outside it
Languages == {"None", "python", "javascript", "java", "go"}

\* the weights the constructor is called with, in units of 1 / WScale:
\* the default, 0.3 each, one metric alone, half and half, 1.05 in all,
\* a negative weight in a sum of 1.0
WeightVectors ==
    {<<5, 5, 5, 5>>, <<6, 6, 6, 6>>, <<20, 0, 0, 0>>, <<0, 10, 10, 0>>,
     <<5, 5, 5, 6>>, <<0, 0, -20, 40>>}

\* the (generated, reference) pairs the datasets are made of: a pair whose
\* evaluate raises, a pair scoring 0.0 on every metric, a partial match
DatasetPairs ==
    {<< <<Surrogate>>, <<PyDef>> >>, << <<JsFun>>, Empty >>,
     << <<PyDef, PyIf>>, <<PyDef>> >>}

\* the tokens of the sequences calculate_bleu_score is called on
Tokens == {"a", "b"}

\* every token sequence of at most n tokens
RECURSIVE SeqsUpTo(_, _)
SeqsUpTo(S, n) ==
    IF n = 0 THEN {<<>>}
    ELSE LET shorter == SeqsUpTo(S, n - 1)
         IN  shorter \cup {Append(s, x) : s \in {t \in shorter : Len(t) = n - 1}, x \in S}

TokenSeqs == SeqsUpTo(Tokens, MaxLen)

\* every list of at most n token sequences holding at most budget tokens together
RECURSIVE ListsWithin(_, _)
ListsWithin(n, budget) ==
    IF n = 0 THEN {<<>>}
    ELSE {<<>>} \cup UNION {{<<r>> \o rest : rest \in ListsWithin(n - 1, budget - Len(r))} :
                               r \in SeqsUpTo(Tokens, budget)}

\* two references at the same distance from a candidate of four tokens, one
\* shorter and one longer than it, in both orders
TiedReferenceLists ==
    {<< <<"a", "a", "a">>, <<"a", "a", "a", "a", "a">> >>,
     << <<"a", "a", "a", "a", "a">>, <<"a", "a", "a">> >>}

ReferenceLists == ListsWithin(MaxRefs, MaxRefTokens) \cup TiedReferenceLists

\* the datasets evaluate_dataset is called on: at most MaxPairs pairs, no pair
\* twice in one dataset (a pair comes again in a later call)
Datasets ==
    {d \in SeqsUpTo(DatasetPairs, MaxPairs) :
        \A j, k \in 1..Len(d) : d[j] = d[k] => j = k}

\* the codes the reference lists are made of
ReferenceCodes ==
    {Empty, <<PyDef>>, <<PyDef, PyIf>>, <<JsFun>>, <<JsComment, JavaMethod>>, <<Surrogate>>}
\* the reference_codes arguments: one string, or a list of at most MaxRefs strings
ReferenceArgs ==
    {Str(c) : c \in Codes} \cup {List(l) : l \in SeqsUpTo(ReferenceCodes, MaxRefs)}

\* the program before any object is constructed and any call is made
InitObjects ==
    /\ evaluator = <<>>
    /\ ctor = "none"
    /\ ctor_args = <<>>
    /\ results = <<>>

IdleDataset ==
    /\ ds_pc = "idle"
    /\ dataset = <<>>
    /\ i = 0
    /\ individual_scores = <<>>
    /\ ds_ret = Return(EmptyDict)
    /\ calls = 0

IdleEvaluate ==
    /\ ev_pc = "call"
    /\ ev_candidate = Empty
    /\ ev_references = List(<<>>)
    /\ ev_language = "None"
    /\ ev_ret = Return(EmptyDict)

IdleBleu ==
    /\ bleu_pc = "call"
    /\ bleu_candidate = <<>>
    /\ bleu_references = <<>>
    /\ bleu_ret = Return(0)

\* main(): an evaluator, a dataset evaluator, calls of evaluate_dataset
Init == InitObjects /\ IdleDataset /\ IdleEvaluate /\ IdleBleu

\* the arguments of one call of evaluate, not yet made
InitEvaluate ==
    /\ InitObjects /\ IdleDataset /\ IdleBleu
    /\ ev_pc = "call"
    /\ ev_candidate \in Codes \cup MixedCodes
    /\ ev_references \in ReferenceArgs
    /\ ev_language \in Languages
    /\ ev_ret = Return(EmptyDict)

\* the arguments of one call of calculate_bleu_score, not yet made
InitBleu ==
    /\ InitObjects /\ IdleDataset /\ IdleEvaluate
    /\ bleu_pc = "call"
    /\ bleu_candidate \in TokenSeqs
    /\ bleu_references \in ReferenceLists
    /\ bleu_ret = Return(0)

\* CodeBLEUEvaluator(alpha, beta, gamma, delta), lines 54-96, and
\* CodeBLEUDatasetEvaluator(evaluator), lines 484-486, on the evaluator made
Construct ==
    /\ ctor = "none"
    /\ \E w \in WeightVectors :
        /\ ctor_args' = w
        /\ IF WeightsAccepted(w[1], w[2], w[3], w[4])
           THEN /\ evaluator' = <<[alpha |-> w[1], beta |-> w[2],
                                   gamma |-> w[3], delta |-> w[4]]>>
                /\ ctor' = "ok"
           ELSE /\ evaluator' = evaluator
                /\ ctor' = "ValueError"
    /\ results' = <<>>
    /\ UNCHANGED <<ds_vars, ev_vars, bleu_vars>>

\* evaluate_dataset(dataset), lines 536-540: the call, up to the loop
EvaluateDatasetCall ==
    /\ evaluator # <<>>
    /\ ds_pc \in {"idle", "returned"}
    /\ calls < MaxCalls
    /\ calls' = calls + 1
    /\ \E d \in Datasets :
        /\ dataset' = d
        /\ IF d = <<>>
           THEN ds_pc' = "returned" /\ ds_ret' = Return(EmptyDict)
           ELSE ds_pc' = "loop" /\ ds_ret' = ds_ret
    /\ i' = 0
    /\ individual_scores' = <<>>
    /\ UNCHANGED <<obj_vars, ev_vars, bleu_vars>>

\* one pass of the loop of lines 542-556, on pair i (counted from 0)
EvaluatePair ==
    /\ ds_pc = "loop"
    /\ i < Len(dataset)
    /\ LET generated == dataset[i + 1][1]
           reference == dataset[i + 1][2]
       IN  \E outcome \in {evaluate(evaluator[1], generated, Str(reference), "None")} :
               /\ individual_scores' = AppendScores(individual_scores, outcome)
               /\ results' = AppendResult(results, outcome, i, generated, reference)
               /\ i' = IF outcome.exc = "none" THEN i + 1
                       ELSE AfterFailure(i, Len(dataset))
    /\ evaluator' = <<SelfAfterEvaluate(evaluator[1])>>
    /\ UNCHANGED <<ctor, ctor_args, ds_pc, dataset, ds_ret, calls,
                   ev_vars, bleu_vars>>

\* lines 558-579: the loop has ended, the call returns
EvaluateDatasetReturn ==
    /\ ds_pc = "loop"
    /\ i >= Len(dataset)
    /\ ds_pc' = "returned"
    /\ ds_ret' = Summarize(individual_scores)
    /\ UNCHANGED <<obj_vars, dataset, i, individual_scores, calls, ev_vars, bleu_vars>>

\* the call evaluate(candidate_code, reference_codes, language)
Evaluate ==
    /\ evaluator # <<>>
    /\ ev_pc = "call"
    /\ ev_pc' = "done"
    /\ ev_ret' = evaluate(evaluator[1], ev_candidate, ev_references, ev_language)
    /\ evaluator' = <<SelfAfterEvaluate(evaluator[1])>>
    /\ UNCHANGED <<ctor, ctor_args, results, ds_vars, ev_candidate, ev_references,
                   ev_language, bleu_vars>>

\* the call calculate_bleu_score(candidate, references)
CallBleu ==
    /\ bleu_pc = "call"
    /\ bleu_pc' = "done"
    /\ bleu_ret' = calculate_bleu_score(bleu_candidate, bleu_references)
    /\ UNCHANGED <<obj_vars, ds_vars, ev_vars, bleu_candidate, bleu_references>>

Next == Construct \/ EvaluateDatasetCall \/ EvaluatePair \/ EvaluateDatasetReturn
NextEvaluate == Construct \/ Evaluate
NextBleu == CallBleu

Spec == Init /\ [][Next]_vars
SpecEvaluate == InitEvaluate /\ [][NextEvaluate]_vars
SpecBleu == InitBleu /\ [][NextBleu]_vars

\* ---------------------------------------------- claims on evaluate_dataset
\* what evaluate did on pair k of the dataset of the call (counted from 1)
PairOutcome(k) == evaluate(evaluator[1], dataset[k][1], Str(dataset[k][2]), "None")
\* what evaluate did on the pairs of the dataset from the k-th on
RECURSIVE OutcomesFrom(_)
OutcomesFrom(k) ==
    IF k > Len(dataset) THEN <<>>
    ELSE <<PairOutcome(k)>> \o OutcomesFrom(k + 1)
PairOutcomes == OutcomesFrom(1)
\* the results of the calls among `outcomes` that returned, in their order
RECURSIVE Returned(_)
Returned(outcomes) ==
    IF outcomes = <<>> THEN <<>>
    ELSE (IF Head(outcomes).exc = "none" THEN <<Head(outcomes).value>> ELSE <<>>)
         \o Returned(Tail(outcomes))
\* a summary is the empty dict
IsEmptyDict(d) == DOMAIN d = {}
\* the values of a metric in a list of results
MetricValues(scored, metric) == [j \in 1..Len(scored) |-> scored[j][metric]]

\* C1: a pair whose evaluate raises does not abort the batch: every other pair is
\* scored, total_pairs is the number of pairs whose evaluate returned, and the
\* mean, max, min and std of every metric are those of the succeeding pairs only.
FailedPairIsSkipped ==
    (ds_pc = "returned" /\ dataset # <<>>)
        => \A scored \in {Returned(PairOutcomes)} :
               /\ individual_scores = scored
               /\ scored # <<>>
                    => /\ ds_ret.exc = "none"
                       /\ ds_ret.value.total_pairs = Len(scored)
                       /\ \A m \in 1..Len(metrics) :
                              Return(ds_ret.value[metrics[m]])
                                  = Statistics(MetricValues(scored, metrics[m]))

\* C1 witness: of a dataset of two pairs the first raised and the second was
\* scored, and the summary counts one pair
FailedPairIsSkippedWitness ==
    /\ ds_pc = "returned"
    /\ Len(dataset) = 2
    /\ Len(individual_scores) = 1
    /\ PairOutcome(1).exc # "none"
    /\ individual_scores[1] = PairOutcome(2).value
    /\ ~IsEmptyDict(ds_ret.value)
    /\ ds_ret.value.total_pairs = 1
    /\ ds_ret.value.codebleu.mean = individual_scores[1].codebleu

\* C2: evaluate_dataset returns the empty dict exactly when the dataset is empty
\* or every pair failed; otherwise the summary has total_pairs >= 1 and the
\* statistics of all five metrics, also when every score is zero.
EmptySummaryIffNothingScored ==
    ds_pc = "returned"
        => /\ ds_ret.exc = "none"
           /\ IsEmptyDict(ds_ret.value)
                <=> (dataset = <<>> \/ \A k \in 1..Len(dataset) : PairOutcome(k).exc # "none")
           /\ ~IsEmptyDict(ds_ret.value)
                => /\ ds_ret.value.total_pairs >= 1
                   /\ \A m \in 1..Len(metrics) :
                          /\ metrics[m] \in DOMAIN ds_ret.value
                          /\ DOMAIN ds_ret.value[metrics[m]] = {"mean", "max", "min", "std"}

\* C2 witness: the dataset was not empty, every pair of it failed and the call
\* returned the empty dict
EmptySummaryWitness ==
    /\ ds_pc = "returned"
    /\ Len(dataset) >= 1
    /\ \A k \in 1..Len(dataset) : PairOutcome(k).exc # "none"
    /\ individual_scores = <<>>
    /\ IsEmptyDict(ds_ret.value)

\* ---------------------------------------------------- claims on evaluate
\* the sum of the weights the constructor was called with
CtorSum == ctor_args[1] + ctor_args[2] + ctor_args[3] + ctor_args[4]

\* C3: a constructor call with weights that do not sum to 1.0 raises and leaves
\* no evaluator; an evaluator made holds the weights as given; evaluate never
\* raises on the weights and reports them as given.
BadWeightSumRejected ==
    /\ ctor = "ValueError" => (evaluator = <<>> /\ CtorSum # WScale /\ ev_pc = "call")
    /\ ctor = "ok"
         => /\ CtorSum = WScale
            /\ evaluator = <<[alpha |-> ctor_args[1], beta |-> ctor_args[2],
                               gamma |-> ctor_args[3], delta |-> ctor_args[4]]>>
    /\ ev_pc = "done"
         => /\ ctor = "ok"
            /\ ev_ret.exc # "ValueError"
            /\ ev_ret.exc = "none" => ev_ret.value.weights = evaluator[1]

\* C3 witness: the constructor called with 0.3 each has raised ValueError
BadWeightSumWitness ==
    /\ ctor = "ValueError"
    /\ ctor_args = <<6, 6, 6, 6>>
    /\ evaluator = <<>>

\* the four sub-scores of the result of the evaluate call made
SubScores ==
    {ev_ret.value.bleu, ev_ret.value.weighted_bleu,
     ev_ret.value.ast_match, ev_ret.value.control_flow}

\* C4 as stated: on every evaluator construction accepts, the weights are
\* non-negative and sum to 1.0, and codebleu is between the smallest and the
\* largest sub-score, hence in [0, 1].
CodebleuIsConvexCombination ==
    (ev_pc = "done" /\ ev_ret.exc = "none")
        => /\ \A k \in 1..4 : ctor_args[k] >= 0
           /\ CtorSum = WScale
           /\ \A sub \in SubScores : 0 <= sub /\ sub <= Scale
           /\ \E sub \in SubScores : sub <= ev_ret.value.codebleu
           /\ \E sub \in SubScores : ev_ret.value.codebleu <= sub
           /\ 0 <= ev_ret.value.codebleu /\ ev_ret.value.codebleu <= Scale

\* --------------------------------- claims on the structure and control flow
\* the arguments of the sub-scorers in the evaluate call made: the reference
\* list and the language resolved
CallReferences == NormalizeReferences(ev_references)
CallLanguage == IF ev_language = "None" THEN detect_language(ev_candidate) ELSE ev_language
CallAst == calculate_ast_matching_score(ev_candidate, CallReferences, CallLanguage)
CallControlFlow == calculate_control_flow_score(ev_candidate, CallReferences, CallLanguage)
\* the references on which the parser raises something else than SyntaxError
RaisingReferences ==
    {r \in 1..Len(CallReferences) :
        ParseNodes(CallReferences[r]).exc \notin {"none", "SyntaxError"}}
\* the call is in parser mode and the parser gets through it: the candidate
\* parses and every reference parses or has a syntax error
ParserModeCompletes ==
    /\ CallLanguage = "python"
    /\ ParseNodes(ev_candidate).exc = "none"
    /\ RaisingReferences = {}

\* C8 as stated: with a reference identical to the candidate, the structural
\* score and the control-flow score are both 1.0, for every language and code.
IdenticalReferenceScoresOne ==
    (ev_pc = "done" /\ \E r \in 1..Len(CallReferences) : CallReferences[r] = ev_candidate)
        => /\ CallAst = Return(Scale)
           /\ CallControlFlow = Return(Scale)

\* C8 amended: with a reference identical to the candidate the control-flow score
\* is 1.0; the structural score is 1.0 outside parser mode and, in parser mode,
\* when the candidate parses and no reference makes the parser raise anything
\* but SyntaxError; in parser mode it is 0.0 when the candidate has a syntax
\* error, and the call raises when the parser raises anything else on the
\* candidate or on a reference of a candidate that parses.
IdenticalReferenceScores ==
    (ev_pc = "done" /\ \E r \in 1..Len(CallReferences) : CallReferences[r] = ev_candidate)
        => /\ CallControlFlow = Return(Scale)
           /\ CallLanguage # "python" => CallAst = Return(Scale)
           /\ ParserModeCompletes => CallAst = Return(Scale)
           /\ (CallLanguage = "python" /\ ParseNodes(ev_candidate).exc = "SyntaxError")
                => CallAst = Return(0)
           /\ (CallLanguage = "python"
                  /\ ParseNodes(ev_candidate).exc \notin {"none", "SyntaxError"})
                => (CallAst = Raise(ParseNodes(ev_candidate).exc) /\ ev_ret = CallAst)
           /\ (CallLanguage = "python" /\ ParseNodes(ev_candidate).exc = "none"
                  /\ RaisingReferences # {})
                => (CallAst.exc # "none" /\ ev_ret = CallAst)
           /\ ev_ret.exc = "none"
                => /\ ev_ret.value.ast_match = CallAst.value
                   /\ ev_ret.value.control_flow = CallControlFlow.value

\* C8 witness: in parser mode, a candidate with a function and a branch, a
\* reference that differs and then an identical one: both scores are 1.0
IdenticalReferenceWitness ==
    /\ ev_pc = "done"
    /\ CallLanguage = "python"
    /\ ev_candidate = <<PyDef, PyIf>>
    /\ Len(CallReferences) = 2
    /\ CallReferences[1] # ev_candidate
    /\ CallReferences[2] = ev_candidate
    /\ ev_ret.exc = "none"
    /\ ev_ret.value.ast_match = Scale
    /\ ev_ret.value.control_flow = Scale

\* the ratio of two signature sets
SignatureRatio(A, B) ==
    IF A = {} /\ B = {} THEN Scale
    ELSE IF A = {} \/ B = {} THEN 0
    ELSE FDiv(Cardinality(A \cap B), Cardinality(A \cup B))
\* the largest ratio of A against the signature sets Bs (0.0 when there is none)
MaxRatio(A, Bs) ==
    LET ratios == {0} \cup {SignatureRatio(A, B) : B \in Bs}
    IN  CHOOSE m \in ratios : \A x \in ratios : x <= m
\* the node-type sets of the references that parse
ParsedReferenceSignatures ==
    {Range(ParseNodes(CallReferences[r]).nodes) :
        r \in {k \in 1..Len(CallReferences) : ParseNodes(CallReferences[k]).exc = "none"}}

\* C9: the structural score and the control-flow score are each the largest,
\* over the references processed, of the ratio of the two signature sets: 1.0
\* for two empty sets, 0.0 for one empty set, |intersection| / |union| otherwise;
\* only the set of a signature's elements counts, not how often each occurs.
ScoresAreMaxJaccard ==
    ev_pc = "done"
        => /\ CallControlFlow =
                  Return(MaxRatio(Range(_extract_control_flow(ev_candidate, CallLanguage)),
                                  {Range(_extract_control_flow(CallReferences[r], CallLanguage)) :
                                       r \in 1..Len(CallReferences)}))
           /\ CallLanguage # "python"
                => CallAst =
                       Return(MaxRatio(Range(_extract_code_structures(ev_candidate, CallLanguage)),
                                       {Range(_extract_code_structures(CallReferences[r], CallLanguage)) :
                                            r \in 1..Len(CallReferences)}))
           /\ ParserModeCompletes
                => CallAst = Return(MaxRatio(Range(ParseNodes(ev_candidate).nodes),
                                             ParsedReferenceSignatures))
           /\ ev_ret.exc = "none"
                => /\ ev_ret.value.ast_match = CallAst.value
                   /\ ev_ret.value.control_flow = CallControlFlow.value

\* C9 witness: in parser mode a candidate that repeats one line, scored against
\* that line alone and against a reference with a syntax error: the repeat
\* changes nothing and both scores are 1.0
ScoresAreMaxJaccardWitness ==
    /\ ev_pc = "done"
    /\ CallLanguage = "python"
    /\ ev_candidate = <<PyDef, PyDef>>
    /\ CallReferences = << <<JsFun>>, <<PyDef>> >>
    /\ ev_ret.exc = "none"
    /\ ev_ret.value.ast_match = Scale
    /\ ev_ret.value.control_flow = Scale

\* C10 as stated: in parser mode a candidate the parser fails on scores 0.0 on
\* structure and evaluate returns a result; a reference the parser fails on is
\* skipped, the others are compared, and nothing is raised.
ParseFailureNeverRaised ==
    (ev_pc = "done" /\ CallLanguage = "python")
        => /\ ev_ret.exc = "none"
           /\ ParseNodes(ev_candidate).exc # "none" => ev_ret.value.ast_match = 0
           /\ ParseNodes(ev_candidate).exc = "none"
                => ev_ret.value.ast_match =
                       MaxRatio(Range(ParseNodes(ev_candidate).nodes),
                                ParsedReferenceSignatures)

\* ------------------------------------------------ claims on the tokens
\* the token lists of the evaluate call made (lines 443-444)
CallCandidateTokens == tokenize_code(ev_candidate, CallLanguage)
CallReferenceTokens ==
    [r \in 1..Len(CallReferences) |-> tokenize_code(CallReferences[r], CallLanguage)]

\* C11: for a language outside the keyword table the keyword set is empty, the
\* duplication of keywords leaves the candidate and every reference unchanged,
\* and calculate_weighted_bleu_score equals calculate_bleu_score.
WeightedBleuIsBleuOutsideTable ==
    (ev_pc = "done" /\ CallLanguage \notin DOMAIN keywords)
        => \A t \in {<<CallCandidateTokens, CallReferenceTokens>>} :
               /\ KeywordsOf(CallLanguage) = {}
               /\ weight_tokens(t[1], KeywordsOf(CallLanguage)) = t[1]
               /\ \A r \in 1..Len(t[2]) :
                      weight_tokens(t[2][r], KeywordsOf(CallLanguage)) = t[2][r]
               /\ calculate_weighted_bleu_score(t[1], t[2], CallLanguage)
                      = calculate_bleu_score(t[1], t[2])
               /\ ev_ret.exc = "none" => ev_ret.value.weighted_bleu = ev_ret.value.bleu

\* C11 witness: under language go a candidate holding `def`, `return`, `if` and
\* `pass` has scored the same plain and weighted BLEU, strictly between 0 and 1
WeightedBleuIsBleuWitness ==
    /\ ev_pc = "done"
    /\ ev_language = "go"
    /\ ev_candidate = <<PyDef, PyIf>>
    /\ ev_ret.exc = "none"
    /\ 0 < ev_ret.value.bleu /\ ev_ret.value.bleu < Scale
    /\ ev_ret.value.weighted_bleu = ev_ret.value.bleu

\* ---------------------------------------------- claims on the language
\* a marker of the set occurs in the code
HasMarker(code, markers) ==
    \E k \in 1..Len(code) : \E marker \in markers : Contains(code[k], marker)
PythonMarkers == {"def ", "import ", "from ", "__init__", "self."}
JavascriptMarkers == {"function ", "var ", "let ", "const ", "=>"}
JavaMarkers == {"public class", "private ", "public static void"}
\* the language the markers of the candidate stand for, in priority order
MarkerLanguage(code) ==
    IF HasMarker(code, PythonMarkers) THEN "python"
    ELSE IF HasMarker(code, JavascriptMarkers) THEN "javascript"
    ELSE IF HasMarker(code, JavaMarkers) THEN "java"
    ELSE "python"

\* C12: without a language argument the language is the one the candidate's
\* markers stand for (python, then javascript, then java, python by default),
\* whatever the references hold; a language given is kept; the language
\* resolved tokenizes the candidate and every reference, selects the
\* sub-scorers and is the one reported.
LanguageResolvedFromCandidate ==
    ev_pc = "done"
        => /\ ev_language = "None" => CallLanguage = MarkerLanguage(ev_candidate)
           /\ ev_language # "None" => CallLanguage = ev_language
           /\ ev_ret.exc = "none"
                => /\ ev_ret.value.language
                          = (IF ev_language = "None" THEN MarkerLanguage(ev_candidate)
                             ELSE ev_language)
                   /\ Return(ev_ret.value.ast_match)
                          = calculate_ast_matching_score(ev_candidate, CallReferences,
                                                         ev_ret.value.language)
                   /\ Return(ev_ret.value.control_flow)
                          = calculate_control_flow_score(ev_candidate, CallReferences,
                                                         ev_ret.value.language)
           /\ ev_language = "None"
                => ev_ret = EvaluateIn(evaluator[1], ev_candidate, CallReferences,
                                       MarkerLanguage(ev_candidate))

\* C12 witness: no language given, a candidate with a javascript line before a
\* python line and a javascript reference: the result reports python
LanguageResolvedWitness ==
    /\ ev_pc = "done"
    /\ ev_language = "None"
    /\ ev_candidate = <<JsFun, PyDef>>
    /\ CallReferences = << <<JsFun>> >>
    /\ ev_ret.exc = "none"
    /\ ev_ret.value.language = "python"

\* ---------------------------------------------- claims on the order of pairs
\* the entries the call under way (or the call that returned last) appended to
\* results: as many as it appended to individual_scores, at the end of the list
CallEntries ==
    SubSeq(results, Len(results) - Len(individual_scores) + 1, Len(results))

\* what holds of the entries of a call at every moment of it: they are the pairs
\* before position i whose evaluate returned, each once, in list order, each with
\* its own position as index, its own codes and its own scores
EntriesAreThePairsPassed ==
    ds_pc \in {"loop", "returned"}
        => \A outcomes \in {PairOutcomes} : \A entries \in {CallEntries} :
              /\ i <= Len(dataset)
              /\ ds_pc = "returned" => i = Len(dataset)
              /\ \A j \in 1..Len(entries) :
                    /\ entries[j].index \in 0..(i - 1)
                    /\ j > 1 => entries[j - 1].index < entries[j].index
                    /\ entries[j].generated_code = dataset[entries[j].index + 1][1]
                    /\ entries[j].reference_code = dataset[entries[j].index + 1][2]
                    /\ Return(entries[j].scores) = outcomes[entries[j].index + 1]
                    /\ entries[j].scores = individual_scores[j]
              /\ \A k \in 0..(i - 1) :
                    (\E j \in 1..Len(entries) : entries[j].index = k)
                        <=> outcomes[k + 1].exc = "none"

\* a step of the loop takes the pair at position i and no other, and goes on to
\* position i + 1; it appends at most the entry of that pair
LoopStepTakesNextPair ==
    (ds_pc = "loop" /\ (i' # i \/ results' # results \/ individual_scores' # individual_scores))
        => /\ i < Len(dataset)
           /\ i' = i + 1
           /\ results' = results
                 \/ results' = Append(results, [index |-> i,
                                                scores |-> individual_scores'[Len(individual_scores')],
                                                generated_code |-> dataset[i + 1][1],
                                                reference_code |-> dataset[i + 1][2]])

\* C16: evaluate_dataset scores the pairs one after another in list order, each
\* once, and records each pair whose evaluate returned with its position in the
\* dataset: the index values of the entries of a call increase strictly and are
\* the positions of the pairs, a failed pair has no entry and the pairs after it
\* keep their positions.
PairsScoredInOrderWithPositions ==
    []EntriesAreThePairsPassed /\ [][LoopStepTakesNextPair]_vars

\* C16 witness: of a dataset of two pairs the first failed; the call returned and
\* its only entry has index 1 and the codes of the second pair
PairsScoredInOrderWitness ==
    /\ ds_pc = "returned"
    /\ Len(dataset) = 2
    /\ PairOutcome(1).exc # "none"
    /\ Len(CallEntries) = 1
    /\ CallEntries[1].index = 1
    /\ CallEntries[1].generated_code = dataset[2][1]
    /\ CallEntries[1].scores.codebleu > 0

\* ------------------------------------------------ claims on the results list
\* what a step does to self.results: the entries before it stay, in their
\* places; a pass of the loop on a pair whose evaluate returns appends one
\* entry, every other step (a pass on a failing pair, the start of a call, the
\* return of a call, of an empty dataset too) appends none
ResultsStep ==
    /\ Len(results') >= Len(results)
    /\ SubSeq(results', 1, Len(results)) = results
    /\ Len(results') - Len(results)
           = (IF ds_pc = "loop" /\ i' = i + 1 /\ PairOutcome(i + 1).exc = "none"
              THEN 1 ELSE 0)
    /\ Len(results') - Len(results)
           = (IF individual_scores' = <<>> THEN 0
              ELSE Len(individual_scores') - Len(individual_scores))

\* C18: the results list of a CodeBLEUDatasetEvaluator only grows: a call of
\* evaluate_dataset appends one entry for each pair it scored and removes,
\* reorders or resets nothing, so the length of the list is the number of pairs
\* scored by all the calls made; a call on an empty dataset or a call whose
\* pairs all fail leaves the list as it was.
ResultsOnlyGrow == [][ResultsStep]_vars

\* C18 witness: the second call on one instance has returned a summary; the
\* list is longer than the total_pairs of that summary, its first entry is of
\* the first call and has the index of the entry appended last
ResultsOnlyGrowWitness ==
    /\ calls = 2
    /\ ds_pc = "returned"
    /\ ds_ret.exc = "none"
    /\ ~IsEmptyDict(ds_ret.value)
    /\ Len(results) > ds_ret.value.total_pairs
    /\ Len(CallEntries) = ds_ret.value.total_pairs
    /\ results[1].index = results[Len(results)].index

\* the weights the constructor call was made with
ConstructedWeights ==
    [alpha |-> ctor_args[1], beta |-> ctor_args[2],
     gamma |-> ctor_args[3], delta |-> ctor_args[4]]
\* the (generated, reference) pairs that have an entry in results
ScoredPairs ==
    {<<results[k].generated_code, results[k].reference_code>> : k \in 1..Len(results)}

StringReferenceIsOneElementList ==
    (ev_pc = "done" /\ ev_references.type = "str")
        => ev_ret = evaluate(evaluator[1], ev_candidate,
                             List(<<ev_references.str>>), ev_language)

\* C13 witness: a call with a two-line string reference that shares tokens with
\* the candidate has returned a result
StringReferenceWitness ==
    /\ ev_pc = "done"
    /\ ev_references = Str(<<PyDef, PyIf>>)
    /\ ev_candidate = <<PyDef>>
    /\ ev_ret.exc = "none"
    /\ ev_ret.value.bleu > 0

\* ------------------------------------------- claims on calculate_bleu_score
\* the precision of order n of the call made, and its numerator and denominator
CallCorrect(n) ==
    Correct(_get_ngrams(bleu_candidate, n),
            [r \in 1..Len(bleu_references) |-> _get_ngrams(bleu_references[r], n)])
CallTotal(n) == CounterTotal(_get_ngrams(bleu_candidate, n))
\* the brevity penalty of the call made (references not empty)
CallBrevityPenalty ==
    BrevityPenalty(Len(bleu_candidate),
                   Len(ClosestRef(bleu_references, Len(bleu_candidate))))

\* the position, counted from 1, of the first reference among those whose length
\* is at the least distance from the length of the candidate
FirstClosestPosition ==
    LET distance(k) == Abs(Len(bleu_references[k]) - Len(bleu_candidate))
        distances == {distance(k) : k \in 1..Len(bleu_references)}
        least == CHOOSE m \in distances : \A other \in distances : m <= other
        closest == {k \in 1..Len(bleu_references) : distance(k) = least}
    IN  CHOOSE k \in closest : \A other \in closest : k <= other
\* the references of the call made, in the opposite order
ReferencesReversed ==
    [k \in 1..Len(bleu_references) |-> bleu_references[Len(bleu_references) + 1 - k]]

\* C15: the brevity penalty of calculate_bleu_score is computed from the first
\* reference among those closest in length to the candidate; it is 1.0 when the
\* candidate is longer than that reference and below 1.0 when the candidate is
\* strictly shorter, and the score returned is that penalty times the geometric
\* mean of the precisions.
PenaltyFromFirstClosestReference ==
    (bleu_pc = "done" /\ bleu_candidate # <<>> /\ bleu_references # <<>>)
        => LET candidate_length == Len(bleu_candidate)
               reference_length == Len(bleu_references[FirstClosestPosition])
               penalty == BrevityPenalty(candidate_length, reference_length)
               precisions == [n \in 1..MaxN |-> PyDiv(CallCorrect(n), CallTotal(n)).value]
           IN  /\ penalty.exc = "none"
               /\ CallBrevityPenalty = penalty
               /\ candidate_length > reference_length => penalty.value = Scale
               /\ candidate_length < reference_length => penalty.value < Scale
               /\ (\A n \in 1..MaxN : CallCorrect(n) > 0)
                     => bleu_ret = Return((penalty.value * GeoMean(precisions)) \div Scale)

\* C15 witness: a candidate of four tokens, a reference of three before one of
\* five: the score is 1.0, and with the two references exchanged it is lower
PenaltyFromFirstClosestWitness ==
    /\ bleu_pc = "done"
    /\ bleu_candidate = <<"a", "a", "a", "a">>
    /\ bleu_references = << <<"a", "a", "a">>, <<"a", "a", "a", "a", "a">> >>
    /\ bleu_ret = Return(Scale)
    /\ calculate_bleu_score(bleu_candidate, ReferencesReversed).exc = "none"
    /\ calculate_bleu_score(bleu_candidate, ReferencesReversed).value < Scale

\* the token sequences calculate_bleu_score passes to _get_ngrams (lines 144-145)
CallTokenSequences ==
    {bleu_candidate} \cup {bleu_references[r] : r \in 1..Len(bleu_references)}

\* C17: for every token sequence and every n in 1..4 the counts of the multiset
\* built by _get_ngrams sum to length - n + 1 when that value is not negative,
\* and the multiset is empty when the sequence is shorter than n.
NGramCountsSumToLength ==
    bleu_pc = "done"
        => \A tokens \in CallTokenSequences : \A n \in 1..MaxN :
              \A ngrams \in {_get_ngrams(tokens, n)} :
                 /\ Len(tokens) - n + 1 >= 0
                       => CounterTotal(ngrams) = Len(tokens) - n + 1
                 /\ Len(tokens) < n => DOMAIN ngrams = {}
                 /\ \A g \in DOMAIN ngrams : Len(g) = n /\ ngrams[g] >= 1

\* C17 witness: the call was made on a candidate of four equal tokens, whose
\* unigram multiset has one key of count 4 and whose 4-gram multiset has one key
\* of count 1, and on a reference of two tokens, which has no 3-gram
NGramCountsWitness ==
    /\ bleu_pc = "done"
    /\ bleu_candidate = <<"a", "a", "a", "a">>
    /\ bleu_references = << <<"a", "b">> >>
    /\ DOMAIN _get_ngrams(bleu_candidate, 1) = {<<"a">>}
    /\ _get_ngrams(bleu_candidate, 1)[<<"a">>] = 4
    /\ CounterTotal(_get_ngrams(bleu_candidate, 4)) = 1
    /\ CounterTotal(_get_ngrams(bleu_references[1], 2)) = 1
    /\ DOMAIN _get_ngrams(bleu_references[1], 3) = {}

\* C5 as stated: for every token sequence x, calculate_bleu_score(x, [x]) is 1.0.
SelfMatchAlwaysOne ==
    (bleu_pc = "done" /\ bleu_references = <<bleu_candidate>>)
        => bleu_ret = Return(Scale)

\* C5 amended: calculate_bleu_score(x, [x]) is 1.0 for every x of at least max_n = 4
\* tokens (clipped count = total at every order 1..4, brevity penalty 1.0), and
\* is 0.0 for every shorter x, the empty one included.
SelfMatchOneFromFourTokens ==
    (bleu_pc = "done" /\ bleu_references = <<bleu_candidate>>)
        => /\ Len(bleu_candidate) >= MaxN
                => /\ bleu_ret = Return(Scale)
                   /\ \A n \in 1..MaxN : CallCorrect(n) = CallTotal(n) /\ CallTotal(n) > 0
                   /\ CallBrevityPenalty = Return(Scale)
           /\ Len(bleu_candidate) < MaxN => bleu_ret = Return(0)

\* C5 witness: a self-match of four tokens, one of them repeated, has scored 1.0
SelfMatchWitness ==
    /\ bleu_pc = "done"
    /\ bleu_references = <<bleu_candidate>>
    /\ Len(bleu_candidate) >= MaxN
    /\ Cardinality(Range(bleu_candidate)) < Len(bleu_candidate)
    /\ bleu_ret = Return(Scale)

\* C6: calculate_bleu_score never raises (no ZeroDivisionError from a zero
\* divisor, no ValueError from min() of no references or log of 0), and it
\* returns 0.0 when the candidate or the reference list is empty.
BleuEmptyInputIsZero ==
    bleu_pc = "done"
        => /\ bleu_ret.exc = "none"
           /\ (bleu_candidate = <<>> \/ bleu_references = <<>>) => bleu_ret = Return(0)
           /\ \A n \in 1..MaxN :
                  Precision(bleu_candidate, bleu_references, n).exc = "none"

\* C6 witness: a call with a candidate and no reference has returned 0.0
BleuEmptyInputWitness ==
    /\ bleu_pc = "done"
    /\ bleu_candidate # <<>>
    /\ bleu_references = <<>>
    /\ bleu_ret = Return(0)

\* C7: the score is in [0, 1]; at every order the sum of clipped counts is
\* between 0 and the number of candidate n-grams; the brevity penalty is at
\* most 1.
BleuInUnitInterval ==
    bleu_pc = "done"
        => /\ bleu_ret.exc = "none"
           /\ 0 <= bleu_ret.value /\ bleu_ret.value <= Scale
           /\ \A n \in 1..MaxN : 0 <= CallCorrect(n) /\ CallCorrect(n) <= CallTotal(n)
           /\ bleu_references # <<>>
                => (0 <= CallBrevityPenalty.value /\ CallBrevityPenalty.value <= Scale)

\* C7 witness: a call with two references has scored strictly between 0 and 1
BleuInUnitIntervalWitness ==
    /\ bleu_pc = "done"
    /\ Len(bleu_references) = 2
    /\ 0 < bleu_ret.value /\ bleu_ret.value < Scale

====
